---------------------------- MODULE Spec2Model ----------------------------
(***************************************************************************)
(* Loan-management backend: customers, loans, guarantors, installments and *)
(* the overdue/arrears records, with the request handlers that change      *)
(* them.  Every handler runs as one step (requests are sequential); a      *)
(* handler that raises before its commit leaves the tables as they were.   *)
(*                                                                         *)
(* Money.  The columns are floats.  Amounts are counted here in integer    *)
(* units of 0.004, so that the 0.01 tolerance of _ensure_overdue_record    *)
(* lies strictly between 2 and 3 units and no comparison in the model      *)
(* sits on a float rounding boundary.  The request amounts are chosen so   *)
(* that every interest computation is exact.                               *)
(*                                                                         *)
(* Time.  Dates and timestamps are day numbers; `today` is utcnow().       *)
(*                                                                         *)
(* Responses.  A handler's response is a function of the tables and the    *)
(* request: each handler has an operator <handler>_outcome giving the      *)
(* response code, the response fields and the tables as committed, and an  *)
(* action that applies it.  A request that is refused leaves the state as  *)
(* it was.                                                                 *)
(***************************************************************************)
EXTENDS Integers, Sequences, FiniteSets, TLC

\* ------------------------------------------------------------------ bounds
MaxLoans == 2
MaxInstallments == 1
MaxDay == 1
\* loans in the specification of sub-cent balances
MaxLoansCents == 1
\* loans in the specification of interleaved payments
MaxLoansRace == 1
\* loans in the specification of paying loans off
MaxLoansPayoff == 1
\* last day of the specification of the weekly schedule
MaxWeeklyDay == 30
\* loans in the specification of update_loan with every rate
MaxLoansTotals == 1
\* loans in the specification of positive payments
MaxLoansPositive == 1
\* loans in the specification of requests with their cookies
MaxLoansAuth == 1

\* ------------------------------------------------------- program constants
\* timedelta(days=30)
DueDays == 30
\* interest_rate=20.0 passed by create_loan; also the `or 20.0` of update_loan
DefaultRate == 20

\* Python's None in a nullable numeric column or an optional request field
NULL == -9999
SESSION_EXPIRE_HOURS == 6
TOTAL_WEEKS == 4

\* ------------------------------------------------------- request alphabets
\* id numbers that requests name; only NewIdNumbers are ever registered
IdNumbers == {"A1", "B2"}
NewIdNumbers == {"A1"}
Phones == {"555"}
\* principal 1.00
LoanAmounts == {250}
CreateRates == {10, 20}
\* start dates: due today (so past due after one day), and due in 30 days
StartDates == {-30, 0}
\* payment amounts besides "exactly the remaining balance": negative, a part,
\* and more than any balance
PayAmounts == {-200, 200, 10000}
\* new amounts for an installment: refused, a part, a whole loan
EditAmounts == {0, 200, 300}
\* amounts paid on an arrears record besides its balance: refused, a part
ArrearsAmounts == {0, 200}
\* optional fields of an update_loan payload
UpdateAmounts == {NULL, 125}
UpdateRates == {NULL}
UpdateStartDates == {NULL, 10}
UpdateDueDates == {NULL, 45}
\* amounts that leave a balance of 0.004, below the 0.01 tolerance of the
\* arrears mirror: a payment or an installment of 1.196 on a total of 1.20
CentsPayAmounts == {200, 299}
CentsEditAmounts == {299, 300}
CentsArrearsAmounts == {0, 1}
\* id numbers and phones of the specification of customer registration
RegistryIdNumbers == {"A1", "B2", "C3", "D4"}
RegistryPhones == {"555", "556", "557"}
\* amounts and rates of update_loan requests, the rate 0 included
TotalsAmounts == {NULL, 500}
TotalsRates == {NULL, 0, 10}
\* the weekly schedule, amounts in cents: a principal of 1.00 at rates that
\* give totals of 1.20, 1.21 and 1.23, start dates and payments
WeeklyAmounts == {100}
WeeklyRates == {20, 21, 23}
WeeklyStartDates == {0, 3}
WeeklyPayAmounts == {40}
\* positive amounts only, of payments, installment edits and arrears payments
PositiveAmounts == {100, 200}
\* payments of two requests in flight on a total of 1.20
RaceAmounts == {100, 200, 300}

VARIABLES
    customers,      \* table customers: sequence (index = id) of rows
    guarantors,     \* table guarantors: number of rows (ids 1..guarantors)
    loans,          \* table loans: sequence (index = id) of rows
    installments,   \* table installments: set of rows, each with its id
    nextInstallment,\* installments' autoincrement counter
    arrears,        \* table arrears: sequence (index = id) of rows
    today,          \* datetime.utcnow().date()
    sessions,       \* record_payment requests in flight: what each has read
    payoff          \* TRUE once only payments, reads and days follow

vars == <<customers, guarantors, loans, installments, nextInstallment,
          arrears, today, sessions, payoff>>

tables == <<customers, guarantors, loans, installments, nextInstallment, arrears>>

\* ---------------------------------------------------------------- helpers
Max(a, b) == IF a >= b THEN a ELSE b

Abs(x) == IF x >= 0 THEN x ELSE -x

RECURSIVE SumAmounts(_)
SumAmounts(S) ==
    IF S = {} THEN 0
    ELSE LET r == CHOOSE r \in S : TRUE IN r.amount + SumAmounts(S \ {r})

\* select(Customer).filter(Customer.id_number == id_number)
CustomersByIdNumber(id_number) ==
    {i \in DOMAIN customers : customers[i].id_number = id_number}

\* func.sum(Installment.amount) filtered by Installment.loan_id
TotalPaid(inst, loan_id) == SumAmounts({r \in inst : r.loan_id = loan_id})

\* a comparison that holds of every difference: abs(a - b) >= 0
ExceedsTolerance_always(d) == d >= 0

\* abs(a - b) > 0.01, in units of 0.004
ExceedsTolerance(d) == 2 * d > 5

\* ------------------------------------------------------------ models.Loan
\* a slip in the interest: the rate taken per ten instead of per hundred
Interest_per_ten(amount, interest_rate) == (amount * interest_rate) \div 10

\* the interest added to the principal
Interest(amount, interest_rate) == (amount * interest_rate) \div 100

LoanInit(customer_id, guarantor_id, amount, interest_rate, start_date) ==
    LET total == amount + Interest(amount, interest_rate) IN
    [ customer_id      |-> customer_id,
      guarantor_id     |-> guarantor_id,
      amount           |-> amount,
      interest_rate    |-> interest_rate,
      total_amount     |-> total,
      remaining_amount |-> total,
      start_date       |-> start_date,
      due_date         |-> start_date + DueDays,
      status           |-> "ACTIVE",
      completed_at     |-> NULL ]

\* ----------------------------------------------------------- loan_service
_remaining_amount(loan) ==
    IF loan.remaining_amount = NULL THEN loan.total_amount
    ELSE loan.remaining_amount

ArrearsOfLoan(ar, loan_id) == {i \in DOMAIN ar : ar[i].loan_id = loan_id}

_actual_paid(loan) == loan.total_amount - _remaining_amount(loan)

\* round(total_amount / TOTAL_WEEKS, 2) of a total in cents: to the nearest
\* cent, and a tie to the side on which the float quotient lies (`tie_up`)
WeeklyDue(total_amount, tie_up) ==
    LET q == total_amount \div TOTAL_WEEKS
        r == total_amount % TOTAL_WEEKS
    IN IF 2 * r > TOTAL_WEEKS \/ (2 * r = TOTAL_WEEKS /\ tie_up) THEN q + 1 ELSE q

\* Amounts in cents, so that the round(..., 2) of sums and differences of
\* cents changes nothing.
compute_weekly_progress(loan, reference_date, tie_up) ==
    IF loan.start_date = NULL
    THEN [ weekly_due_amount |-> 0, weeks_elapsed |-> 0, expected_paid |-> 0,
           actual_paid |-> _actual_paid(loan), arrears_amount |-> 0 ]
    ELSE LET weekly_due_amount == WeeklyDue(loan.total_amount, tie_up)
             days_elapsed == reference_date - loan.start_date
             weeks_elapsed == IF days_elapsed >= 0
                              THEN IF (days_elapsed \div 7) + 1 < TOTAL_WEEKS
                                   THEN (days_elapsed \div 7) + 1 ELSE TOTAL_WEEKS
                              ELSE 0
             expected_paid == weekly_due_amount * weeks_elapsed
             actual_paid == _actual_paid(loan)
         IN [ weekly_due_amount |-> weekly_due_amount,
              weeks_elapsed     |-> weeks_elapsed,
              expected_paid     |-> expected_paid,
              actual_paid       |-> actual_paid,
              arrears_amount    |-> Max(0, expected_paid - actual_paid) ]

\* Returns the arrears table and the `changed` flag.
_ensure_overdue_record(ar, loan, loan_id, remaining_amount) ==
    LET found == ArrearsOfLoan(ar, loan_id) IN
    IF found = {}
    THEN LET customer_id == CHOOSE i \in CustomersByIdNumber(loan.customer_id) : TRUE IN
         [ arrears |-> Append(ar, [ loan_id          |-> loan_id,
                                    customer_id      |-> customer_id,
                                    original_amount  |-> loan.total_amount,
                                    remaining_amount |-> remaining_amount,
                                    is_cleared       |-> FALSE,
                                    cleared_date     |-> NULL ]),
           changed |-> TRUE ]
    ELSE LET i  == CHOOSE i \in found : TRUE
             a0 == ar[i]
             c1 == ExceedsTolerance(Abs(a0.remaining_amount - remaining_amount))
             a1 == IF c1 THEN [a0 EXCEPT !.remaining_amount = remaining_amount] ELSE a0
             c2 == a1.is_cleared
             a2 == IF c2 THEN [a1 EXCEPT !.is_cleared = FALSE, !.cleared_date = NULL] ELSE a1
         IN [ arrears |-> [ar EXCEPT ![i] = a2], changed |-> c1 \/ c2 ]

\* Returns the loans table, the arrears table and the `changed` flag.
sync_overdue_state(ls, ar, loan_id, ref_date) ==
    LET l0 == ls[loan_id]
        remaining_amount == _remaining_amount(l0)
        c1 == l0.status = "ARREARS"
        l1 == IF c1 THEN [l0 EXCEPT !.status = "OVERDUE"] ELSE l0
    IN
    IF l1.due_date # NULL /\ l1.due_date < ref_date /\ remaining_amount > 0
    THEN LET c2 == l1.status # "OVERDUE"
             l2 == IF c2 THEN [l1 EXCEPT !.status = "OVERDUE"] ELSE l1
             e  == _ensure_overdue_record(ar, l2, loan_id, remaining_amount)
         IN [ loans   |-> [ls EXCEPT ![loan_id] = l2],
              arrears |-> e.arrears,
              changed |-> c1 \/ c2 \/ e.changed ]
    ELSE LET c2 == l1.status = "OVERDUE" /\ remaining_amount <= 0
             l2 == IF c2 THEN [l1 EXCEPT !.status = "COMPLETED", !.completed_at = today]
                   ELSE l1
             found == ArrearsOfLoan(ar, loan_id)
             c3 == /\ found # {}
                   /\ \E i \in found : ~ar[i].is_cleared
                   /\ remaining_amount <= 0
             ar2 == IF c3
                    THEN [i \in DOMAIN ar |->
                            IF i \in found
                            THEN [ar[i] EXCEPT !.remaining_amount = 0,
                                               !.is_cleared = TRUE,
                                               !.cleared_date = today]
                            ELSE ar[i]]
                    ELSE ar
         IN [ loans   |-> [ls EXCEPT ![loan_id] = l2],
              arrears |-> ar2,
              changed |-> c1 \/ c2 \/ c3 ]

\* ------------------------------------------------------- customer_routes
\* The tables a request leaves untouched when it is refused.
Refused(code) ==
    [ code |-> code, customers |-> customers, guarantors |-> guarantors,
      loans |-> loans, installments |-> installments,
      nextInstallment |-> nextInstallment, arrears |-> arrears ]

\* The action of a handler whose outcome is `o`.
Commit(o) ==
    /\ customers' = o.customers
    /\ guarantors' = o.guarantors
    /\ loans' = o.loans
    /\ installments' = o.installments
    /\ nextInstallment' = o.nextInstallment
    /\ arrears' = o.arrears
    /\ UNCHANGED <<today, sessions, payoff>>

create_customer_outcome(id_number, phone) ==
    LET existing == {i \in DOMAIN customers :
                        \/ customers[i].id_number = id_number
                        \/ customers[i].phone = phone}
    IN
    IF Cardinality(existing) > 1 THEN Refused(500)   \* MultipleResultsFound
    ELSE IF existing # {} THEN Refused(400)
    ELSE [Refused(200) EXCEPT
            !.customers = Append(customers, [id_number |-> id_number, phone |-> phone])]

create_customer(id_number, phone) ==
    Commit(create_customer_outcome(id_number, phone))

\* loans of one customer, in id order
LoansOfCustomer(ls, id_number, statuses) ==
    {i \in DOMAIN ls : ls[i].customer_id = id_number /\ ls[i].status \in statuses}

AllStatuses == {"ACTIVE", "COMPLETED", "OVERDUE", "ARREARS"}

\* for loan in loans: sync_overdue_state(db, loan), over the loans with ids
\* `ids` not above `k`, in id order
RECURSIVE SyncEach(_, _, _, _)
SyncEach(ls, ar, ids, k) ==
    IF k = 0 THEN [loans |-> ls, arrears |-> ar, changed |-> FALSE]
    ELSE LET before == SyncEach(ls, ar, ids, k - 1) IN
         IF k \in ids
         THEN LET s == sync_overdue_state(before.loans, before.arrears, k, today) IN
              [s EXCEPT !.changed = s.changed \/ before.changed]
         ELSE before

\* The payload rows (id and reported status) and the tables as committed.
_serialize_loans_with_progress(ids) ==
    LET s == SyncEach(loans, arrears, ids, Len(loans)) IN
    [ payload |-> {[id |-> i, status |-> s.loans[i].status] : i \in ids},
      loans   |-> IF s.changed THEN s.loans ELSE loans,
      arrears |-> IF s.changed THEN s.arrears ELSE arrears ]

get_customer_by_id_number_outcome(id_number) ==
    IF CustomersByIdNumber(id_number) = {} THEN Refused(404) @@ [payload |-> {}]
    ELSE LET r == _serialize_loans_with_progress(
                    LoansOfCustomer(loans, id_number, {"ACTIVE", "OVERDUE", "ARREARS"}))
         IN [Refused(200) EXCEPT !.loans = r.loans, !.arrears = r.arrears]
            @@ [payload |-> r.payload]

get_customer_by_id_number(id_number) ==
    Commit(get_customer_by_id_number_outcome(id_number))

get_customer_by_id_outcome(customer_id) ==
    IF customer_id \notin DOMAIN customers THEN Refused(404) @@ [payload |-> {}]
    ELSE LET r == _serialize_loans_with_progress(
                    LoansOfCustomer(loans, customers[customer_id].id_number, AllStatuses))
         IN [Refused(200) EXCEPT !.loans = r.loans, !.arrears = r.arrears]
            @@ [payload |-> r.payload]

get_customer_by_id(customer_id) ==
    Commit(get_customer_by_id_outcome(customer_id))

\* ----------------------------------------------------------- loan_routes
\* select(Arrears).filter(customer_id == customer.id, is_cleared == False)
ActiveArrears(ar, customer_pk) ==
    {i \in DOMAIN ar : ar[i].customer_id = customer_pk /\ ~ar[i].is_cleared}

\* the rate create_loan hands to Loan(...)
create_loan_rate(interest_rate) == DefaultRate

create_loan_outcome(id_number, amount, interest_rate, start_date, guarantor) ==
    LET found == CustomersByIdNumber(id_number) IN
    IF found = {} THEN Refused(404)
    ELSE LET customer == CHOOSE i \in found : TRUE
             active_loan == LoansOfCustomer(loans, id_number, {"ACTIVE", "OVERDUE"})
             active_arrears == ActiveArrears(arrears, customer)
             guarantor_id == IF guarantor THEN guarantors + 1 ELSE NULL
             db_loan == LoanInit(id_number, guarantor_id, amount,
                                 create_loan_rate(interest_rate), start_date)
         IN IF Cardinality(active_loan) > 1 THEN Refused(500)   \* MultipleResultsFound
            ELSE IF active_loan # {} THEN Refused(400)
            ELSE IF Cardinality(active_arrears) > 1 THEN Refused(500)
            ELSE IF active_arrears # {} THEN Refused(400)
            ELSE [Refused(200) EXCEPT
                    !.guarantors = IF guarantor THEN guarantors + 1 ELSE guarantors,
                    !.loans = Append(loans, db_loan)]

\* a handler that lets the failure of the receipt reach the client
ReceiptAttempt_uncaught(o, receipt_raises) ==
    IF o.code = 200 /\ receipt_raises THEN [o EXCEPT !.code = 500] ELSE o

\* try: generate_loan_receipt(...) except Exception: logger.warning(...),
\* after the commit; `receipt_raises` is whether generate_loan_receipt raised
ReceiptAttempt(o, receipt_raises) == o

create_loan(id_number, amount, interest_rate, start_date, guarantor) ==
    \E receipt_raises \in BOOLEAN :
        LET o == ReceiptAttempt(
                    create_loan_outcome(id_number, amount, interest_rate,
                                        start_date, guarantor),
                    receipt_raises) IN
        /\ o.code # 200 \/ Len(loans) < MaxLoans
        /\ Commit(o)

\* a slip in the dates: a new start_date leaves the old due_date standing
update_loan_dates_keep_due(loan, start_date, due_date) ==
    LET l1 == IF start_date # NULL THEN [loan EXCEPT !.start_date = start_date] ELSE loan
    IN IF due_date # NULL THEN [l1 EXCEPT !.due_date = due_date] ELSE l1

\* start_date and due_date of a loan after the "Update dates if provided" part
update_loan_dates(loan, start_date, due_date) ==
    LET l1 == IF start_date # NULL
              THEN IF due_date = NULL
                   THEN [loan EXCEPT !.start_date = start_date,
                                     !.due_date = start_date + DueDays]
                   ELSE [loan EXCEPT !.start_date = start_date]
              ELSE loan
    IN IF due_date # NULL THEN [l1 EXCEPT !.due_date = due_date] ELSE l1

\* amount, interest_rate, total_amount and remaining_amount after the
\* "recompute totals" part
update_loan_totals(loan, amount, interest_rate) ==
    LET already_paid == Max(0, (IF loan.total_amount = NULL THEN 0 ELSE loan.total_amount)
                             - (IF loan.remaining_amount = NULL THEN 0
                                ELSE loan.remaining_amount))
        l1 == IF amount # NULL THEN [loan EXCEPT !.amount = amount] ELSE loan
        l2 == IF interest_rate # NULL THEN [l1 EXCEPT !.interest_rate = interest_rate] ELSE l1
        \* loan.interest_rate or 20.0
        new_interest_rate == IF l2.interest_rate = 0 THEN DefaultRate ELSE l2.interest_rate
        new_total == l2.amount + Interest(l2.amount, new_interest_rate)
    IN [l2 EXCEPT !.total_amount = new_total,
                  !.remaining_amount = Max(0, new_total - already_paid)]

update_loan_outcome(loan_id, amount, interest_rate, start_date, due_date) ==
    IF loan_id \notin DOMAIN loans THEN Refused(404)
    ELSE IF loans[loan_id].status = "COMPLETED" THEN Refused(400)
    ELSE LET l1 == update_loan_totals(loans[loan_id], amount, interest_rate)
             l2 == update_loan_dates(l1, start_date, due_date)
         IN [Refused(200) EXCEPT !.loans = [loans EXCEPT ![loan_id] = l2]]

update_loan(loan_id, amount, interest_rate, start_date, due_date) ==
    Commit(update_loan_outcome(loan_id, amount, interest_rate, start_date, due_date))

\* GET /loans/active: the rows returned (id and reported status)
list_active_loans_outcome ==
    Refused(200) @@
    [payload |-> {[id |-> i, status |-> loans[i].status] :
                    i \in {j \in DOMAIN loans : loans[j].status \in {"ACTIVE", "OVERDUE"}}}]

list_active_loans == Commit(list_active_loans_outcome)

\* GET /loans/{loan_id}
get_loan_details_outcome(loan_id) ==
    IF loan_id \notin DOMAIN loans THEN Refused(404) @@ [payload |-> {}]
    ELSE Refused(200) @@ [payload |-> {[id |-> loan_id, status |-> loans[loan_id].status]}]

get_loan_details(loan_id) == Commit(get_loan_details_outcome(loan_id))

\* ------------------------------------------------------ dashboard_routes
\* GET /dashboard/metrics (the call of _refresh_overdue_states is commented out)
get_dashboard_metrics_outcome ==
    Refused(200) @@
    [ active_loans  |-> Cardinality({i \in DOMAIN loans :
                                        loans[i].status \in {"ACTIVE", "OVERDUE"}}),
      overdue_loans |-> Cardinality({i \in DOMAIN arrears : ~arrears[i].is_cleared}) ]

get_dashboard_metrics == Commit(get_dashboard_metrics_outcome)

\* -------------------------------------------------------- payment_routes
\* a slip in the balance check: a payment of the balance plus any excess passes
Overpays_never(amount, current_remaining) == FALSE

\* payment.amount > current_remaining
Overpays(amount, current_remaining) == amount > current_remaining

\* the loan's balance once `amount` is paid on a balance of `current_remaining`
PaymentRemaining(current_remaining, amount) == Max(0, current_remaining - amount)

\* `loan_id` is the loan the request addressed (0 if it found none) and
\* `installment_id` the installment it stored (0 if none).
record_payment_outcome(id_number, amount) ==
    LET none == Refused(0) @@ [loan_id |-> 0, installment_id |-> 0]
        active == LoansOfCustomer(loans, id_number, {"ACTIVE"})
        overdue == LoansOfCustomer(loans, id_number, {"OVERDUE", "ARREARS"})
    IN
    IF CustomersByIdNumber(id_number) = {} THEN [none EXCEPT !.code = 404]
    ELSE IF Cardinality(active) > 1 THEN [none EXCEPT !.code = 500]  \* MultipleResultsFound
    ELSE IF active = {}
         THEN IF Cardinality(overdue) > 1 THEN [none EXCEPT !.code = 500]
              ELSE [none EXCEPT !.code = 400]
    ELSE LET loan_id == CHOOSE i \in active : TRUE
             s1 == sync_overdue_state(loans, arrears, loan_id, today)
         IN
         IF s1.loans[loan_id].status # "ACTIVE"
         THEN IF s1.changed
              THEN [none EXCEPT !.code = 400, !.loan_id = loan_id,
                                !.loans = s1.loans, !.arrears = s1.arrears]
              ELSE [none EXCEPT !.code = 400, !.loan_id = loan_id]
         ELSE LET loan == s1.loans[loan_id]
                  installment == [id |-> nextInstallment, loan_id |-> loan_id,
                                  amount |-> amount]
                  current_remaining == IF loan.remaining_amount # NULL
                                       THEN loan.remaining_amount ELSE loan.total_amount
              IN
              IF Overpays(amount, current_remaining)
              THEN \* raised before the commit: the session is discarded
                   [none EXCEPT !.code = 400, !.loan_id = loan_id]
              ELSE LET new_remaining == PaymentRemaining(current_remaining, amount)
                       l1 == [loan EXCEPT !.remaining_amount = new_remaining]
                       l2 == IF new_remaining <= 0
                             THEN [l1 EXCEPT !.status = "COMPLETED", !.completed_at = today]
                             ELSE l1
                       s2 == sync_overdue_state([s1.loans EXCEPT ![loan_id] = l2],
                                                s1.arrears, loan_id, today)
                   IN [none EXCEPT !.code = 200, !.loan_id = loan_id,
                                   !.installment_id = nextInstallment,
                                   !.loans = s2.loans, !.arrears = s2.arrears,
                                   !.installments = installments \cup {installment},
                                   !.nextInstallment = nextInstallment + 1]

record_payment(id_number, amount) ==
    LET o == record_payment_outcome(id_number, amount) IN
    /\ o.code # 200 \/ nextInstallment <= MaxInstallments
    /\ Commit(o)

\* a slip in the reopening: the completion timestamp is left standing
Reopened_keep_completed_at(loan) ==
    [loan EXCEPT !.status = IF loan.due_date # NULL /\ loan.due_date < today
                            THEN "OVERDUE" ELSE "ACTIVE"]

\* a loan with a balance left: completion timestamp cleared, status by due date
Reopened(loan) ==
    [loan EXCEPT !.completed_at = NULL,
                 !.status = IF loan.due_date # NULL /\ loan.due_date < today
                            THEN "OVERDUE" ELSE "ACTIVE"]

\* a slip in the recomputation: the sum is taken before the edit is flushed
Recompute_stale_sum(ls, ar, inst, loan_id) ==
    LET loan == ls[loan_id]
        total_paid == TotalPaid(installments, loan_id)
        new_remaining == Max(0, loan.total_amount - total_paid)
        l1 == [loan EXCEPT !.remaining_amount = new_remaining]
        l2 == IF new_remaining <= 0
              THEN [l1 EXCEPT !.status = "COMPLETED", !.completed_at = today]
              ELSE Reopened(l1)
    IN sync_overdue_state([ls EXCEPT ![loan_id] = l2], ar, loan_id, today)

\* The loan `loan_id` after its balance is recomputed from the installments
\* `inst`, with the status that follows from the balance and the due date.
Recompute(ls, ar, inst, loan_id) ==
    LET loan == ls[loan_id]
        total_paid == TotalPaid(inst, loan_id)
        new_remaining == Max(0, loan.total_amount - total_paid)
        l1 == [loan EXCEPT !.remaining_amount = new_remaining]
        l2 == IF new_remaining <= 0
              THEN [l1 EXCEPT !.status = "COMPLETED", !.completed_at = today]
              ELSE Reopened(l1)
    IN sync_overdue_state([ls EXCEPT ![loan_id] = l2], ar, loan_id, today)

InstallmentsById(installment_id) == {r \in installments : r.id = installment_id}

update_installment_amount_outcome(installment_id, amount) ==
    IF amount <= 0 THEN Refused(400)
    ELSE IF InstallmentsById(installment_id) = {} THEN Refused(404)
    ELSE LET installment == CHOOSE r \in InstallmentsById(installment_id) : TRUE
             inst == (installments \ {installment})
                        \cup {[installment EXCEPT !.amount = amount]}
             s == Recompute(loans, arrears, inst, installment.loan_id)
         IN [Refused(200) EXCEPT !.installments = inst,
                                 !.loans = s.loans, !.arrears = s.arrears]

update_installment_amount(installment_id, amount) ==
    Commit(update_installment_amount_outcome(installment_id, amount))

delete_installment_outcome(installment_id) ==
    IF InstallmentsById(installment_id) = {} THEN Refused(404)
    ELSE LET installment == CHOOSE r \in InstallmentsById(installment_id) : TRUE
             inst == installments \ {installment}
             s == Recompute(loans, arrears, inst, installment.loan_id)
         IN [Refused(200) EXCEPT !.installments = inst,
                                 !.loans = s.loans, !.arrears = s.arrears]

delete_installment(installment_id) ==
    Commit(delete_installment_outcome(installment_id))

\* -------------------------------------------------------- arrears_routes
\* a slip in the arrears balance: an excess payment is not clamped at zero
ArrearsAfterPayment_unclamped(remaining_amount, amount) == remaining_amount - amount

\* max(0.0, float(arrears.remaining_amount) - float(body.amount))
ArrearsAfterPayment(remaining_amount, amount) == Max(0, remaining_amount - amount)

\* a slip in the amount check: a payment of nothing passes
NotPositive_zero_passes(amount) == amount < 0

\* body.amount <= 0
NotPositive(amount) == amount <= 0

\* a completion that leaves the timestamp as it was
MarkCompleted_unstamped(loan) == [loan EXCEPT !.status = "COMPLETED"]

\* loan.status = LoanStatus.COMPLETED; loan.completed_at = datetime.utcnow()
MarkCompleted(loan) == [loan EXCEPT !.status = "COMPLETED", !.completed_at = today]

pay_arrears_outcome(arrears_id, amount) ==
    IF arrears_id \notin DOMAIN arrears THEN Refused(404)
    ELSE IF arrears[arrears_id].is_cleared THEN Refused(400)
    ELSE IF NotPositive(amount) THEN Refused(400)
    ELSE LET a0 == arrears[arrears_id]
             a1 == [a0 EXCEPT !.remaining_amount =
                                ArrearsAfterPayment(a0.remaining_amount, amount)]
             loan_id == a1.loan_id
             l1 == [loans[loan_id] EXCEPT !.remaining_amount = a1.remaining_amount]
         IN IF a1.remaining_amount = 0
            THEN [Refused(200) EXCEPT
                    !.arrears = [arrears EXCEPT ![arrears_id] =
                                    [a1 EXCEPT !.is_cleared = TRUE, !.cleared_date = today]],
                    !.loans = [loans EXCEPT ![loan_id] = MarkCompleted(l1)]]
            ELSE [Refused(200) EXCEPT
                    !.arrears = [arrears EXCEPT ![arrears_id] = a1],
                    !.loans = [loans EXCEPT ![loan_id] = [l1 EXCEPT !.status = "ARREARS"]]]

pay_arrears(arrears_id, amount) == Commit(pay_arrears_outcome(arrears_id, amount))

clear_arrears_outcome(arrears_id) ==
    IF arrears_id \notin DOMAIN arrears THEN Refused(404)
    ELSE LET a1 == [arrears[arrears_id] EXCEPT !.remaining_amount = 0,
                                               !.is_cleared = TRUE,
                                               !.cleared_date = today]
             loan_id == a1.loan_id
             loan == loans[loan_id]
         IN [Refused(200) EXCEPT
                !.arrears = [arrears EXCEPT ![arrears_id] = a1],
                !.loans = IF loan.status # "COMPLETED"
                          THEN [loans EXCEPT ![loan_id] =
                                    MarkCompleted([loan EXCEPT !.remaining_amount = 0])]
                          ELSE loans]

clear_arrears(arrears_id) == Commit(clear_arrears_outcome(arrears_id))

\* ------------------------------------------- record_payment, interleaved
\* Each request runs in its own AsyncSession: the loan row it selected stays
\* in the session as read, and its commit writes the columns it assigned.
Sessions == {1, 2}

Idle == [pc |-> "idle", loan_id |-> 0, amount |-> 0, loan |-> <<>>,
         read_at |-> 0, installment_id |-> 0]

\* a handler that reads the balance again, under a lock, before it decrements
PaymentBase_reread(read_remaining, stored_remaining) == stored_remaining

\* the balance the decrement starts from: loan.remaining_amount as selected
PaymentBase(read_remaining, stored_remaining) == read_remaining

\* The request up to the point where it has selected its loan and passed the
\* checks; a request that is refused ends here as it does when alone.
record_payment_begin(r, id_number, amount) ==
    LET o == record_payment_outcome(id_number, amount) IN
    /\ sessions[r].pc = "idle"
    /\ IF o.code # 200
       THEN Commit(o)
       ELSE /\ sessions' = [sessions EXCEPT ![r] =
                    [pc |-> "read", loan_id |-> o.loan_id, amount |-> amount,
                     loan |-> loans[o.loan_id], read_at |-> nextInstallment,
                     installment_id |-> 0]]
            /\ UNCHANGED <<customers, guarantors, loans, installments,
                           nextInstallment, arrears, today, payoff>>

\* The rest of the request: the installment is inserted, the balance is
\* decremented from the value the session holds, and the columns that the
\* session changed are written to the row.
record_payment_commit(r) ==
    LET q == sessions[r]
        loan_id == q.loan_id
        current_remaining == PaymentBase(_remaining_amount(q.loan),
                                         _remaining_amount(loans[loan_id]))
        new_remaining == PaymentRemaining(current_remaining, q.amount)
        l1 == [q.loan EXCEPT !.remaining_amount = new_remaining]
        l2 == IF new_remaining <= 0
              THEN [l1 EXCEPT !.status = "COMPLETED", !.completed_at = today]
              ELSE l1
        s2 == sync_overdue_state([loans EXCEPT ![loan_id] = l2], arrears, loan_id, today)
        obj == s2.loans[loan_id]
        row == loans[loan_id]
        written == [row EXCEPT
            !.remaining_amount = IF obj.remaining_amount # q.loan.remaining_amount
                                 THEN obj.remaining_amount ELSE row.remaining_amount,
            !.status = IF obj.status # q.loan.status THEN obj.status ELSE row.status,
            !.completed_at = IF obj.completed_at # q.loan.completed_at
                             THEN obj.completed_at ELSE row.completed_at]
    IN /\ q.pc = "read"
       /\ installments' = installments \cup
                {[id |-> nextInstallment, loan_id |-> loan_id, amount |-> q.amount]}
       /\ nextInstallment' = nextInstallment + 1
       /\ loans' = [loans EXCEPT ![loan_id] = written]
       /\ arrears' = s2.arrears
       /\ sessions' = [sessions EXCEPT ![r].pc = "done",
                                       ![r].installment_id = nextInstallment]
       /\ UNCHANGED <<customers, guarantors, today, payoff>>

\* ---------------------------------------------------------- authentication
\* A request's session_token cookie: absent, or a token with or without a
\* valid signature, its age in hours and the username it carries.
Users == {"admin"}
Usernames == {"admin", "ghost"}
TokenAges == {0, 6, 7}

NoCookie == [present |-> FALSE, signed |-> FALSE, age |-> 0, username |-> ""]

Tokens ==
    {NoCookie} \cup
    [present : {TRUE}, signed : BOOLEAN, age : TokenAges, username : Usernames]

\* a serializer that is given no max_age
Expired_never(age) == FALSE

\* serializer.loads(cookie, max_age=SESSION_EXPIRE_HOURS * 3600)
Expired(age) == age > SESSION_EXPIRE_HOURS

verify_session_cookie(token) ==
    IF ~token.signed THEN [code |-> 401, username |-> ""]
    ELSE IF Expired(token.age) THEN [code |-> 401, username |-> ""]
    ELSE [code |-> 200, username |-> token.username]

get_current_user(token) ==
    IF ~token.present THEN [code |-> 401, username |-> ""]
    ELSE LET data == verify_session_cookie(token) IN
         IF data.code # 200 THEN data
         ELSE IF data.username \notin Users THEN [code |-> 401, username |-> ""]
         ELSE data

\* Depends(get_current_user): the handler body runs only for a current user
Authenticated(token, o) ==
    IF get_current_user(token).code # 200 THEN Refused(401) ELSE o

\* --------------------------------------------------------------- the clock
Tick ==
    /\ today < MaxDay
    /\ today' = today + 1
    /\ UNCHANGED <<customers, guarantors, loans, installments, nextInstallment, arrears>>
    /\ UNCHANGED <<sessions, payoff>>

\* ---------------------------------------------------------- specification
\* amounts a payment request carries: the fixed ones and every open balance
PaymentAmounts ==
    PayAmounts \cup {loans[i].remaining_amount : i \in DOMAIN loans}

ArrearsPaymentAmounts ==
    ArrearsAmounts \cup {arrears[i].remaining_amount : i \in DOMAIN arrears}

LoanIds == 1..MaxLoans
InstallmentIds == 1..MaxInstallments
CustomerIds == {1, 2}

Init ==
    /\ customers = <<>>
    /\ guarantors = 0
    /\ loans = <<>>
    /\ installments = {}
    /\ nextInstallment = 1
    /\ arrears = <<>>
    /\ today = 0
    /\ sessions = [r \in Sessions |-> Idle]
    /\ payoff = FALSE

Next ==
    \/ \E id_number \in NewIdNumbers, phone \in Phones : create_customer(id_number, phone)
    \/ \E id_number \in IdNumbers : get_customer_by_id_number(id_number)
    \/ \E customer_id \in CustomerIds : get_customer_by_id(customer_id)
    \/ \E id_number \in IdNumbers, amount \in LoanAmounts, interest_rate \in CreateRates,
          start_date \in StartDates, guarantor \in BOOLEAN :
            create_loan(id_number, amount, interest_rate, start_date, guarantor)
    \/ \E loan_id \in LoanIds, amount \in UpdateAmounts, interest_rate \in UpdateRates,
          start_date \in UpdateStartDates, due_date \in UpdateDueDates :
            update_loan(loan_id, amount, interest_rate, start_date, due_date)
    \/ list_active_loans
    \/ \E loan_id \in LoanIds : get_loan_details(loan_id)
    \/ get_dashboard_metrics
    \/ \E id_number \in IdNumbers, amount \in PaymentAmounts :
            record_payment(id_number, amount)
    \/ \E installment_id \in InstallmentIds, amount \in EditAmounts :
            update_installment_amount(installment_id, amount)
    \/ \E installment_id \in InstallmentIds : delete_installment(installment_id)
    \/ \E arrears_id \in LoanIds, amount \in ArrearsPaymentAmounts :
            pay_arrears(arrears_id, amount)
    \/ \E arrears_id \in LoanIds : clear_arrears(arrears_id)
    \/ Tick

Spec == Init /\ [][Next]_vars

\* One customer with one loan, due on day 0, and amounts that bring the balance
\* within the tolerance of _ensure_overdue_record.
NextCents ==
    \/ \E id_number \in NewIdNumbers, phone \in Phones : create_customer(id_number, phone)
    \/ \E id_number \in NewIdNumbers : get_customer_by_id_number(id_number)
    \/ \E id_number \in NewIdNumbers, amount \in LoanAmounts :
            /\ Len(loans) < MaxLoansCents
            /\ create_loan(id_number, amount, DefaultRate, -DueDays, FALSE)
    \/ \E id_number \in NewIdNumbers,
          amount \in CentsPayAmounts \cup {loans[i].remaining_amount : i \in DOMAIN loans} :
            record_payment(id_number, amount)
    \/ \E installment_id \in InstallmentIds, amount \in CentsEditAmounts :
            update_installment_amount(installment_id, amount)
    \/ \E installment_id \in InstallmentIds : delete_installment(installment_id)
    \/ \E arrears_id \in LoanIds,
          amount \in CentsArrearsAmounts
                        \cup {arrears[i].remaining_amount : i \in DOMAIN arrears} :
            pay_arrears(arrears_id, amount)
    \/ \E arrears_id \in LoanIds : clear_arrears(arrears_id)
    \/ Tick

SpecCents == Init /\ [][NextCents]_vars

\* One customer with one loan that is not past due, and two record_payment
\* requests whose reads and commits interleave.  Nothing here makes a loan
\* overdue, so the arrears table stays empty.
NextRace ==
    \/ \E id_number \in NewIdNumbers, phone \in Phones : create_customer(id_number, phone)
    \/ \E id_number \in NewIdNumbers, amount \in LoanAmounts, start_date \in StartDates :
            /\ Len(loans) < MaxLoansRace
            /\ create_loan(id_number, amount, DefaultRate, start_date, FALSE)
    \/ \E r \in Sessions, id_number \in IdNumbers, amount \in RaceAmounts :
            record_payment_begin(r, id_number, amount)
    \/ \E r \in Sessions : record_payment_commit(r)
    \/ \E loan_id \in LoanIds : get_loan_details(loan_id)

SpecRace == Init /\ [][NextRace]_vars

\* Every handler behind Depends(get_current_user), called with every cookie.
NextAuth ==
    \/ \E token \in Tokens, id_number \in NewIdNumbers, phone \in Phones :
            Commit(Authenticated(token, create_customer_outcome(id_number, phone)))
    \/ \E token \in Tokens, id_number \in IdNumbers :
            Commit(Authenticated(token, get_customer_by_id_number_outcome(id_number)))
    \/ \E token \in Tokens, customer_id \in CustomerIds :
            Commit(Authenticated(token, get_customer_by_id_outcome(customer_id)))
    \/ \E token \in Tokens, id_number \in IdNumbers, amount \in LoanAmounts,
          interest_rate \in CreateRates, start_date \in StartDates, guarantor \in BOOLEAN :
            /\ Len(loans) < MaxLoansAuth
            /\ Commit(Authenticated(token,
                   create_loan_outcome(id_number, amount, interest_rate, start_date, guarantor)))
    \/ \E token \in Tokens, loan_id \in LoanIds, amount \in UpdateAmounts,
          interest_rate \in UpdateRates, start_date \in UpdateStartDates,
          due_date \in UpdateDueDates :
            Commit(Authenticated(token,
                update_loan_outcome(loan_id, amount, interest_rate, start_date, due_date)))
    \/ \E token \in Tokens : Commit(Authenticated(token, list_active_loans_outcome))
    \/ \E token \in Tokens, loan_id \in LoanIds :
            Commit(Authenticated(token, get_loan_details_outcome(loan_id)))
    \/ \E token \in Tokens : Commit(Authenticated(token, get_dashboard_metrics_outcome))
    \/ \E token \in Tokens, id_number \in IdNumbers, amount \in PaymentAmounts :
            /\ nextInstallment <= MaxInstallments
            /\ Commit(Authenticated(token, record_payment_outcome(id_number, amount)))
    \/ \E token \in Tokens, installment_id \in InstallmentIds, amount \in EditAmounts :
            Commit(Authenticated(token,
                update_installment_amount_outcome(installment_id, amount)))
    \/ \E token \in Tokens, installment_id \in InstallmentIds :
            Commit(Authenticated(token, delete_installment_outcome(installment_id)))
    \/ \E token \in Tokens, arrears_id \in LoanIds, amount \in ArrearsPaymentAmounts :
            Commit(Authenticated(token, pay_arrears_outcome(arrears_id, amount)))
    \/ \E token \in Tokens, arrears_id \in LoanIds :
            Commit(Authenticated(token, clear_arrears_outcome(arrears_id)))
    \/ Tick

SpecAuth == Init /\ [][NextAuth]_vars

\* One loan of positive principal under the operations that write
\* remaining_amount, every payment amount positive.
NextPositive ==
    \/ \E id_number \in NewIdNumbers, phone \in Phones : create_customer(id_number, phone)
    \/ \E id_number \in NewIdNumbers : get_customer_by_id_number(id_number)
    \/ \E id_number \in NewIdNumbers, amount \in LoanAmounts, start_date \in StartDates :
            /\ Len(loans) < MaxLoansPositive
            /\ create_loan(id_number, amount, DefaultRate, start_date, FALSE)
    \/ \E loan_id \in LoanIds, amount \in UpdateAmounts, interest_rate \in UpdateRates,
          start_date \in UpdateStartDates, due_date \in UpdateDueDates :
            update_loan(loan_id, amount, interest_rate, start_date, due_date)
    \/ \E id_number \in NewIdNumbers, amount \in PositiveAmounts :
            record_payment(id_number, amount)
    \/ \E installment_id \in InstallmentIds, amount \in PositiveAmounts :
            update_installment_amount(installment_id, amount)
    \/ \E installment_id \in InstallmentIds : delete_installment(installment_id)
    \/ \E arrears_id \in LoanIds, amount \in PositiveAmounts :
            pay_arrears(arrears_id, amount)
    \/ \E arrears_id \in LoanIds : clear_arrears(arrears_id)
    \/ Tick

SpecPositive == Init /\ [][NextPositive]_vars

\* One loan, payments on it, and update_loan with every amount and rate.
NextTotals ==
    \/ \E id_number \in NewIdNumbers, phone \in Phones : create_customer(id_number, phone)
    \/ \E id_number \in NewIdNumbers : get_customer_by_id_number(id_number)
    \/ \E id_number \in NewIdNumbers, amount \in LoanAmounts, start_date \in StartDates :
            /\ Len(loans) < MaxLoansTotals
            /\ create_loan(id_number, amount, DefaultRate, start_date, FALSE)
    \/ \E loan_id \in LoanIds, amount \in TotalsAmounts, interest_rate \in TotalsRates :
            update_loan(loan_id, amount, interest_rate, NULL, NULL)
    \/ \E id_number \in NewIdNumbers, amount \in PositiveAmounts :
            record_payment(id_number, amount)
    \/ \E arrears_id \in LoanIds, amount \in PositiveAmounts :
            pay_arrears(arrears_id, amount)
    \/ Tick

SpecTotals == Init /\ [][NextTotals]_vars

\* Paying loans off.  Any operations on one loan bring the program to some
\* state; from BeginPayoff on, only payments of positive amounts through
\* record_payment and pay_arrears, reads that run sync_overdue_state, and
\* days follow.
BeginPayoff ==
    /\ ~payoff
    /\ payoff' = TRUE
    /\ UNCHANGED <<customers, guarantors, loans, installments, nextInstallment,
                   arrears, today, sessions>>

\* positive amounts of a payer: the fixed ones and every open balance
PayoffAmounts ==
    {amount \in PositiveAmounts
                \cup {loans[i].remaining_amount : i \in DOMAIN loans}
                \cup {arrears[i].remaining_amount : i \in DOMAIN arrears} : amount > 0}

PayoffPayment ==
    /\ payoff
    /\ \/ \E id_number \in NewIdNumbers, amount \in PayoffAmounts :
             Commit(record_payment_outcome(id_number, amount))
       \/ \E arrears_id \in LoanIds, amount \in PayoffAmounts :
             Commit(pay_arrears_outcome(arrears_id, amount))

\* a payment that completes a loan
Settle ==
    /\ PayoffPayment
    /\ \E i \in DOMAIN loans :
          loans[i].status # "COMPLETED" /\ loans'[i].status = "COMPLETED"

SyncRead == \E id_number \in NewIdNumbers : get_customer_by_id_number(id_number)

NextPayoff ==
    \/ \E id_number \in NewIdNumbers, phone \in Phones :
            ~payoff /\ create_customer(id_number, phone)
    \/ \E id_number \in NewIdNumbers, amount \in LoanAmounts, start_date \in StartDates :
            /\ ~payoff /\ Len(loans) < MaxLoansPayoff
            /\ create_loan(id_number, amount, DefaultRate, start_date, FALSE)
    \/ \E loan_id \in LoanIds, amount \in UpdateAmounts, start_date \in UpdateStartDates :
            ~payoff /\ update_loan(loan_id, amount, NULL, start_date, NULL)
    \/ \E id_number \in NewIdNumbers, amount \in PositiveAmounts :
            ~payoff /\ record_payment(id_number, amount)
    \/ \E installment_id \in InstallmentIds, amount \in PositiveAmounts :
            ~payoff /\ update_installment_amount(installment_id, amount)
    \/ \E installment_id \in InstallmentIds : ~payoff /\ delete_installment(installment_id)
    \/ \E arrears_id \in LoanIds, amount \in PositiveAmounts :
            ~payoff /\ pay_arrears(arrears_id, amount)
    \/ \E arrears_id \in LoanIds : ~payoff /\ clear_arrears(arrears_id)
    \/ BeginPayoff
    \/ PayoffPayment
    \/ SyncRead
    \/ Tick

\* The payer makes a payment that completes a loan whenever one is accepted,
\* and the loans are read.
SpecPayoff ==
    Init /\ [][NextPayoff]_vars /\ SF_vars(Settle) /\ WF_vars(SyncRead)

\* The weekly schedule of one loan, amounts in cents: a customer with an
\* ACTIVE loan of some rate and start date, payments on it, and the days of
\* its term.
InitWeekly ==
    /\ customers = <<[id_number |-> "A1", phone |-> "555"]>>
    /\ guarantors = 0
    /\ \E amount \in WeeklyAmounts, interest_rate \in WeeklyRates,
          start_date \in WeeklyStartDates :
          loans = <<LoanInit("A1", NULL, amount, interest_rate, start_date)>>
    /\ installments = {}
    /\ nextInstallment = 1
    /\ arrears = <<>>
    /\ today = 0
    /\ sessions = [r \in Sessions |-> Idle]
    /\ payoff = FALSE

Advance ==
    /\ today < MaxWeeklyDay
    /\ today' = today + 1
    /\ UNCHANGED <<customers, guarantors, loans, installments, nextInstallment,
                   arrears, sessions, payoff>>

NextWeekly ==
    \/ \E id_number \in NewIdNumbers,
          amount \in WeeklyPayAmounts \cup {loans[i].remaining_amount : i \in DOMAIN loans} :
            record_payment(id_number, amount)
    \/ \E loan_id \in LoanIds : get_loan_details(loan_id)
    \/ Advance

SpecWeekly == InitWeekly /\ [][NextWeekly]_vars

\* Registration of customers with several id numbers and phones.
NextRegistry ==
    \/ \E id_number \in RegistryIdNumbers, phone \in RegistryPhones :
            create_customer(id_number, phone)
    \/ \E id_number \in RegistryIdNumbers : get_customer_by_id_number(id_number)
    \/ \E customer_id \in CustomerIds : get_customer_by_id(customer_id)

SpecRegistry == Init /\ [][NextRegistry]_vars
\* ================================================================ properties
OpenStatuses == {"ACTIVE", "OVERDUE", "ARREARS"}

\* due_date earlier than today with a balance left
PastDue(loan) == loan.due_date < today /\ loan.remaining_amount > 0

\* the row a successful create_loan appended
NewLoan(o) == o.loans[Len(o.loans)]

\* C1: after any sequence of operations every customer has at most one loan
\* whose status is not COMPLETED.
C1_AtMostOneOpenLoan ==
    \A id_number \in IdNumbers :
        Cardinality(LoansOfCustomer(loans, id_number, OpenStatuses)) <= 1

\* C2: create_loan for an existing customer with an ACTIVE or OVERDUE loan, or
\* with an uncleared arrears record, returns 400 and adds no loan row and no
\* guarantor row; it succeeds only when the customer has neither.
C2_CreateLoanRefusedWith400 ==
    \A id_number \in IdNumbers, amount \in LoanAmounts, interest_rate \in CreateRates,
       start_date \in StartDates, guarantor \in BOOLEAN :
        LET o == create_loan_outcome(id_number, amount, interest_rate, start_date, guarantor)
            found == CustomersByIdNumber(id_number)
            blocked == \/ LoansOfCustomer(loans, id_number, {"ACTIVE", "OVERDUE"}) # {}
                       \/ \E c \in found : ActiveArrears(arrears, c) # {}
        IN found # {} =>
            /\ blocked => /\ o.code = 400
                          /\ o.loans = loans
                          /\ o.guarantors = guarantors
            /\ o.code = 200 => ~blocked

\* C3: immediately after a successful create_loan the stored loan has
\* total_amount = amount * (1 + interest_rate/100) for its stored amount and
\* rate, remaining_amount = total_amount and status ACTIVE.
C3_CreatedLoanTotals ==
    \A id_number \in IdNumbers, amount \in LoanAmounts, interest_rate \in CreateRates,
       start_date \in StartDates, guarantor \in BOOLEAN :
        LET o == create_loan_outcome(id_number, amount, interest_rate, start_date, guarantor)
        IN o.code = 200 =>
            /\ Len(o.loans) = Len(loans) + 1
            /\ 100 * NewLoan(o).total_amount
                   = NewLoan(o).amount * (100 + NewLoan(o).interest_rate)
            /\ NewLoan(o).remaining_amount = NewLoan(o).total_amount
            /\ NewLoan(o).status = "ACTIVE"

\* a loan stands in the table exactly as create_loan stored it
C3_Witness ==
    \E i \in DOMAIN loans :
        /\ i = Len(loans)
        /\ loans[i].status = "ACTIVE"
        /\ loans[i].amount \in LoanAmounts
        /\ loans[i].total_amount > loans[i].amount
        /\ loans[i].remaining_amount = loans[i].total_amount
        /\ TotalPaid(installments, i) = 0

\* C4: create_loan stores the interest rate r of the request, for every r, and
\* total_amount = amount * (1 + r/100).
C4_CreateLoanStoresSuppliedRate ==
    \A id_number \in IdNumbers, amount \in LoanAmounts, interest_rate \in CreateRates,
       start_date \in StartDates, guarantor \in BOOLEAN :
        LET o == create_loan_outcome(id_number, amount, interest_rate, start_date, guarantor)
        IN o.code = 200 =>
            /\ NewLoan(o).interest_rate = interest_rate
            /\ 100 * NewLoan(o).total_amount = amount * (100 + interest_rate)

\* what create_loan and update_loan answer about the dates
C5_DatesOfRequests ==
    /\ \A id_number \in IdNumbers, amount \in LoanAmounts, interest_rate \in CreateRates,
          start_date \in StartDates, guarantor \in BOOLEAN :
        LET o == create_loan_outcome(id_number, amount, interest_rate, start_date, guarantor)
        IN o.code = 200 =>
            /\ NewLoan(o).start_date = start_date
            /\ NewLoan(o).due_date = start_date + DueDays
    /\ \A loan_id \in LoanIds, amount \in UpdateAmounts, interest_rate \in UpdateRates,
          start_date \in UpdateStartDates, due_date \in UpdateDueDates :
        LET o == update_loan_outcome(loan_id, amount, interest_rate, start_date, due_date)
        IN o.code = 200 =>
            /\ start_date # NULL => o.loans[loan_id].start_date = start_date
            /\ (start_date # NULL /\ due_date = NULL)
                   => o.loans[loan_id].due_date = start_date + DueDays
            /\ due_date # NULL => o.loans[loan_id].due_date = due_date

\* a step leaves a loan with due_date # start_date + 30 only if the loan had
\* these dates before or the step is an update_loan that supplied the due_date
C5_OnlyUpdateOverrides ==
    \A i \in DOMAIN loans' :
        loans'[i].due_date # loans'[i].start_date + DueDays =>
            \/ /\ i \in DOMAIN loans
               /\ loans'[i].due_date = loans[i].due_date
               /\ loans'[i].start_date = loans[i].start_date
            \/ \E amount \in UpdateAmounts, interest_rate \in UpdateRates,
                  start_date \in UpdateStartDates, due_date \in UpdateDueDates \ {NULL} :
                 LET o == update_loan_outcome(i, amount, interest_rate, start_date, due_date)
                 IN /\ o.code = 200
                    /\ loans' = o.loans
                    /\ loans'[i].due_date = due_date

\* C5: due_date = start_date + 30 days after create_loan and after an
\* update_loan that changes start_date without supplying due_date; due_date
\* differs from start_date + 30 only when an update_loan supplied it, and then
\* equals the supplied value.
C5_DueDateThirtyDaysUnlessSupplied ==
    []C5_DatesOfRequests /\ [][C5_OnlyUpdateOverrides]_vars

\* one loan carries a supplied due_date, another a start_date that update_loan
\* moved and the due_date recomputed from it
C5_Witness ==
    \E i, j \in DOMAIN loans :
        /\ loans[i].due_date \in UpdateDueDates
        /\ loans[i].due_date # loans[i].start_date + DueDays
        /\ loans[j].start_date \in UpdateStartDates \ StartDates
        /\ loans[j].due_date = loans[j].start_date + DueDays

\* C6: for an ACTIVE loan not past its due date, record_payment of exactly the
\* remaining_amount appends one installment of that amount and leaves the loan
\* with remaining_amount 0, status COMPLETED and completed_at set.
C6_PayingInFullCompletes ==
    \A id_number \in IdNumbers :
        \A i \in LoansOfCustomer(loans, id_number, {"ACTIVE"}) :
            loans[i].due_date >= today =>
                LET amount == loans[i].remaining_amount
                    o == record_payment_outcome(id_number, amount)
                IN /\ o.code = 200
                   /\ o.installments = installments \cup
                        {[id |-> o.installment_id, loan_id |-> i, amount |-> amount]}
                   /\ Cardinality(o.installments) = Cardinality(installments) + 1
                   /\ o.loans[i].remaining_amount = 0
                   /\ o.loans[i].status = "COMPLETED"
                   /\ o.loans[i].completed_at # NULL

\* C7 as stated: record_payment with amount greater than the loan's
\* remaining_amount returns 400, adds no installment and leaves the loan's
\* remaining_amount, status and completed_at as before.
C7_OverpaymentLeavesStateUnchanged ==
    \A id_number \in IdNumbers, amount \in PaymentAmounts :
        \A i \in LoansOfCustomer(loans, id_number, {"ACTIVE"}) :
            amount > loans[i].remaining_amount =>
                LET o == record_payment_outcome(id_number, amount)
                IN /\ o.code = 400
                   /\ o.installments = installments
                   /\ o.loans[i].remaining_amount = loans[i].remaining_amount
                   /\ o.loans[i].status = loans[i].status
                   /\ o.loans[i].completed_at = loans[i].completed_at

\* C7 as amended: record_payment with amount greater than the remaining_amount
\* of every ACTIVE loan of the customer never succeeds: it returns 400 (500 if
\* the customer has several ACTIVE loans), adds no installment and leaves every
\* loan's remaining_amount and completed_at as before; a status changes only
\* from ACTIVE to OVERDUE, for a loan past its due date with a balance left,
\* which then has an uncleared arrears record.
C7_OverpaymentRefused ==
    \A id_number \in IdNumbers, amount \in PaymentAmounts :
        LET active == LoansOfCustomer(loans, id_number, {"ACTIVE"})
            o == record_payment_outcome(id_number, amount)
        IN (active # {} /\ \A i \in active : amount > loans[i].remaining_amount) =>
            /\ o.code = IF Cardinality(active) > 1 THEN 500 ELSE 400
            /\ o.installments = installments
            /\ o.nextInstallment = nextInstallment
            /\ DOMAIN o.loans = DOMAIN loans
            /\ \A i \in DOMAIN loans :
                /\ o.loans[i].remaining_amount = loans[i].remaining_amount
                /\ o.loans[i].completed_at = loans[i].completed_at
                /\ \/ o.loans[i].status = loans[i].status
                   \/ /\ loans[i].status = "ACTIVE"
                      /\ PastDue(loans[i])
                      /\ o.loans[i].status = "OVERDUE"
                      /\ \E a \in ArrearsOfLoan(o.arrears, i) : ~o.arrears[a].is_cleared

\* an overpayment is refused in both ways: on a loan in time, with nothing
\* changed, and on a loan past its due date, which the refusal leaves OVERDUE
C7_Witness ==
    \E id_number \in IdNumbers, amount \in PaymentAmounts :
        LET active == LoansOfCustomer(loans, id_number, {"ACTIVE"})
            o == record_payment_outcome(id_number, amount)
        IN /\ Cardinality(active) = 1
           /\ \A i \in active : amount > loans[i].remaining_amount /\ PastDue(loans[i])
           /\ o.code = 400
           /\ \E i \in active : o.loans[i].status = "OVERDUE"

\* C8: after any sequence of operations every loan has
\* remaining_amount = max(0, total_amount - sum of its installments).
C8_RemainingIsTotalMinusInstallments ==
    \A i \in DOMAIN loans :
        loans[i].remaining_amount
            = Max(0, loans[i].total_amount - TotalPaid(installments, i))

\* C9: a loan with due_date < today and remaining_amount > 0 is reported
\* OVERDUE by every read endpoint that returns it (customer detail by id and by
\* id_number, GET /loans/{id}, GET /loans/active, dashboard metrics), and after
\* the read an uncleared arrears record of the loan carries its balance.
C9_ReadReportsOverdue ==
    \A i \in DOMAIN loans :
        PastDue(loans[i]) =>
            LET Reported(o) ==
                    /\ \A row \in o.payload : row.id = i => row.status = "OVERDUE"
                    /\ \E a \in ArrearsOfLoan(o.arrears, i) :
                        /\ ~o.arrears[a].is_cleared
                        /\ o.arrears[a].remaining_amount = o.loans[i].remaining_amount
                metrics == get_dashboard_metrics_outcome
            IN /\ Reported(get_customer_by_id_number_outcome(loans[i].customer_id))
               /\ \A c \in CustomersByIdNumber(loans[i].customer_id) :
                    Reported(get_customer_by_id_outcome(c))
               /\ Reported(get_loan_details_outcome(i))
               /\ Reported(list_active_loans_outcome)
               /\ \E a \in ArrearsOfLoan(metrics.arrears, i) : ~metrics.arrears[a].is_cleared

\* C10: record_payment never records a payment against an overdue loan: when
\* the customer's loan is OVERDUE or ARREARS, or stored ACTIVE past its due
\* date with a balance left, the request returns 400, adds no installment and
\* leaves the loan's remaining_amount unchanged.
C10_NoPaymentOnOverdueLoan ==
    \A id_number \in IdNumbers, amount \in PaymentAmounts :
        \A i \in LoansOfCustomer(loans, id_number, OpenStatuses) :
            (loans[i].status \in {"OVERDUE", "ARREARS"} \/ PastDue(loans[i])) =>
                LET o == record_payment_outcome(id_number, amount)
                IN /\ o.code = 400
                   /\ o.installments = installments
                   /\ o.loans[i].remaining_amount = loans[i].remaining_amount

\* the installments of a loan other than `installment`, summed
PaidWithout(installment) ==
    SumAmounts({r \in installments : r.loan_id = installment.loan_id /\ r # installment})

\* C11: when a loan is COMPLETED and deleting an installment leaves
\* total_amount - remaining installments > 0, delete_installment leaves the
\* loan with completed_at null and status OVERDUE if due_date < today, ACTIVE
\* otherwise.
C11_DeleteReopensLoan ==
    \A installment \in installments :
        LET i == installment.loan_id
            o == delete_installment_outcome(installment.id)
        IN (loans[i].status = "COMPLETED"
                /\ loans[i].total_amount - PaidWithout(installment) > 0) =>
            /\ o.code = 200
            /\ installment \notin o.installments
            /\ o.loans[i].completed_at = NULL
            /\ o.loans[i].status = IF loans[i].due_date < today THEN "OVERDUE" ELSE "ACTIVE"

\* a loan that a deletion reopened: completed by its installment, past due,
\* and OVERDUE with no completion timestamp once the installment is deleted
C11_Witness ==
    \E installment \in installments :
        LET i == installment.loan_id
            o == delete_installment_outcome(installment.id)
        IN /\ loans[i].status = "COMPLETED"
           /\ loans[i].completed_at # NULL
           /\ installment.amount = loans[i].total_amount
           /\ loans[i].due_date < today
           /\ o.loans[i].status = "OVERDUE"

\* what C12 says of loan i in the tables of outcome o
C12_Recomputed(o, i) ==
    LET paid == SumAmounts({r \in o.installments : r.loan_id = i})
        remaining == Max(0, o.loans[i].total_amount - paid)
    IN /\ o.loans[i].remaining_amount = remaining
       /\ IF remaining = 0
          THEN o.loans[i].status = "COMPLETED" /\ o.loans[i].completed_at # NULL
          ELSE /\ o.loans[i].completed_at = NULL
               /\ o.loans[i].status
                    = IF o.loans[i].due_date < today THEN "OVERDUE" ELSE "ACTIVE"

\* C12: after every successful update_installment_amount or delete_installment
\* the affected loan has remaining_amount = max(0, total_amount - sum of its
\* installments after the edit), is COMPLETED with completed_at set if that is
\* 0, and otherwise has completed_at null and status OVERDUE if due_date <
\* today, else ACTIVE.
C12_EditRecomputesLoan ==
    \A installment \in installments :
        /\ \A amount \in EditAmounts :
            LET o == update_installment_amount_outcome(installment.id, amount)
            IN o.code = 200 =>
                /\ \E r \in o.installments : r.id = installment.id /\ r.amount = amount
                /\ C12_Recomputed(o, installment.loan_id)
        /\ LET o == delete_installment_outcome(installment.id)
           IN o.code = 200 =>
                /\ installment \notin o.installments
                /\ C12_Recomputed(o, installment.loan_id)

\* an edit that changes the balance: a part payment raised to the whole total
\* completes the loan
C12_Witness ==
    \E installment \in installments, amount \in EditAmounts :
        LET i == installment.loan_id
            o == update_installment_amount_outcome(installment.id, amount)
        IN /\ o.code = 200
           /\ loans[i].status # "COMPLETED"
           /\ amount # installment.amount
           /\ o.loans[i].status = "COMPLETED"
           /\ o.loans[i].remaining_amount # loans[i].remaining_amount

\* amounts of arrears payments: refused ones, parts, balances, and an excess
ArrearsRequestAmounts ==
    PayAmounts \cup ArrearsAmounts \cup CentsArrearsAmounts
        \cup {arrears[i].remaining_amount : i \in DOMAIN arrears}

\* the record and its loan after a payment that covers the balance
C13_Cleared(o, arrears_id) ==
    LET i == arrears[arrears_id].loan_id IN
    /\ o.code = 200
    /\ o.arrears[arrears_id].remaining_amount = 0
    /\ o.arrears[arrears_id].is_cleared
    /\ o.arrears[arrears_id].cleared_date # NULL
    /\ o.loans[i].remaining_amount = 0
    /\ o.loans[i].status = "COMPLETED"
    /\ o.loans[i].completed_at # NULL

\* the record and its loan after a payment of a part of the balance
C13_StillOwing(o, arrears_id) ==
    /\ o.code = 200
    /\ ~o.arrears[arrears_id].is_cleared
    /\ o.loans[arrears[arrears_id].loan_id].status # "COMPLETED"

C14_PayArrearsRefused ==
    \A arrears_id \in DOMAIN arrears, amount \in ArrearsRequestAmounts :
        LET o == pay_arrears_outcome(arrears_id, amount)
        IN (arrears[arrears_id].is_cleared \/ amount <= 0) =>
            /\ o.code = 400
            /\ o.arrears = arrears
            /\ o.loans = loans

\* both refusals: a cleared record offered a real payment, and an uncleared
\* record offered nothing
C14_Witness ==
    \E a, b \in DOMAIN arrears, amount \in ArrearsRequestAmounts :
        /\ arrears[a].is_cleared /\ amount > 0
        /\ pay_arrears_outcome(a, amount).code = 400
        /\ ~arrears[b].is_cleared
        /\ pay_arrears_outcome(b, 0).code = 400


\* Two record_payment requests that both selected the loan before either
\* committed, and have both committed.
BothReadFirst(a, b) ==
    /\ a # b
    /\ sessions[a].pc = "done" /\ sessions[b].pc = "done"
    /\ sessions[a].loan_id = sessions[b].loan_id
    /\ sessions[a].read_at = sessions[b].read_at
    /\ sessions[a].installment_id < sessions[b].installment_id

StoredInstallment(q) ==
    [id |-> q.installment_id, loan_id |-> q.loan_id, amount |-> q.amount]

\* C15: when two record_payment requests for one ACTIVE loan both read the
\* balance before either commits, both installments are stored and the stored
\* balance is the one read minus the payment of the request that committed
\* last only.
C15_LastDecrementWins ==
    \A a \in Sessions, b \in Sessions :
        BothReadFirst(a, b) =>
            /\ StoredInstallment(sessions[a]) \in installments
            /\ StoredInstallment(sessions[b]) \in installments
            /\ sessions[a].loan.status = "ACTIVE" /\ sessions[b].loan.status = "ACTIVE"
            /\ loans[sessions[b].loan_id].remaining_amount =
                    PaymentRemaining(_remaining_amount(sessions[b].loan), sessions[b].amount)

\* both requests have committed and the loan owes more than its total less
\* the installments stored for it
C15_Witness ==
    \E a \in Sessions, b \in Sessions :
        /\ BothReadFirst(a, b)
        /\ LET loan_id == sessions[a].loan_id IN
           loans[loan_id].remaining_amount >
               loans[loan_id].total_amount - TotalPaid(installments, loan_id)


\* the cookies of the four cases: none, a bad signature, older than the
\* session lifetime, a username with no row in users
InvalidTokens ==
    {token \in Tokens : \/ ~token.present
                        \/ ~token.signed
                        \/ token.age > SESSION_EXPIRE_HOURS
                        \/ token.username \notin Users}

C16_Unauthorized(o) ==
    /\ o.code = 401
    /\ o.customers = customers /\ o.guarantors = guarantors /\ o.loans = loans
    /\ o.installments = installments /\ o.nextInstallment = nextInstallment
    /\ o.arrears = arrears

\* C16: every business operation called with no token, a token with an
\* invalid signature, a token older than 6 hours or a token naming a user that
\* does not exist answers 401 and changes no table.
C16_InvalidTokenRefused ==
    \A token \in InvalidTokens :
        /\ \A id_number \in IdNumbers, phone \in Phones :
              C16_Unauthorized(Authenticated(token, create_customer_outcome(id_number, phone)))
        /\ \A id_number \in IdNumbers :
              C16_Unauthorized(Authenticated(token, get_customer_by_id_number_outcome(id_number)))
        /\ \A customer_id \in CustomerIds :
              C16_Unauthorized(Authenticated(token, get_customer_by_id_outcome(customer_id)))
        /\ \A id_number \in IdNumbers, amount \in LoanAmounts, interest_rate \in CreateRates,
              start_date \in StartDates, guarantor \in BOOLEAN :
              C16_Unauthorized(Authenticated(token,
                  create_loan_outcome(id_number, amount, interest_rate, start_date, guarantor)))
        /\ \A loan_id \in LoanIds, amount \in UpdateAmounts, interest_rate \in UpdateRates,
              start_date \in UpdateStartDates, due_date \in UpdateDueDates :
              C16_Unauthorized(Authenticated(token,
                  update_loan_outcome(loan_id, amount, interest_rate, start_date, due_date)))
        /\ C16_Unauthorized(Authenticated(token, list_active_loans_outcome))
        /\ \A loan_id \in LoanIds :
              C16_Unauthorized(Authenticated(token, get_loan_details_outcome(loan_id)))
        /\ C16_Unauthorized(Authenticated(token, get_dashboard_metrics_outcome))
        /\ \A id_number \in IdNumbers, amount \in PaymentAmounts :
              C16_Unauthorized(Authenticated(token, record_payment_outcome(id_number, amount)))
        /\ \A installment_id \in InstallmentIds, amount \in EditAmounts :
              C16_Unauthorized(Authenticated(token,
                  update_installment_amount_outcome(installment_id, amount)))
        /\ \A installment_id \in InstallmentIds :
              C16_Unauthorized(Authenticated(token, delete_installment_outcome(installment_id)))
        /\ \A arrears_id \in LoanIds, amount \in ArrearsPaymentAmounts :
              C16_Unauthorized(Authenticated(token, pay_arrears_outcome(arrears_id, amount)))
        /\ \A arrears_id \in LoanIds :
              C16_Unauthorized(Authenticated(token, clear_arrears_outcome(arrears_id)))

\* a payment that a current user would have recorded is refused for each of
\* the four kinds of cookie
C16_Witness ==
    \E id_number \in IdNumbers, amount \in PaymentAmounts :
        /\ record_payment_outcome(id_number, amount).code = 200
        /\ record_payment_outcome(id_number, amount).loans # loans
        /\ \A token \in InvalidTokens :
              Authenticated(token, record_payment_outcome(id_number, amount)).code = 401
        /\ NoCookie \in InvalidTokens
        /\ \E token \in InvalidTokens : token.present /\ ~token.signed
        /\ \E token \in InvalidTokens :
              token.signed /\ token.username \in Users /\ token.age > SESSION_EXPIRE_HOURS
        /\ \E token \in InvalidTokens :
              token.signed /\ token.age <= SESSION_EXPIRE_HOURS /\ token.username \notin Users


\* C17: no two customers share an id_number or a phone, and create_customer
\* with an id_number or a phone of an existing customer, the two matching
\* different customers included, answers 400 and adds no row.
C17_UniqueAndRefusedWith400 ==
    /\ \A i \in DOMAIN customers, j \in DOMAIN customers :
          i # j => /\ customers[i].id_number # customers[j].id_number
                   /\ customers[i].phone # customers[j].phone
    /\ \A id_number \in RegistryIdNumbers, phone \in RegistryPhones :
          (\E i \in DOMAIN customers : \/ customers[i].id_number = id_number
                                       \/ customers[i].phone = phone)
            => /\ create_customer_outcome(id_number, phone).code = 400
               /\ create_customer_outcome(id_number, phone).customers = customers


\* C18: create_loan commits the loan, and the guarantor, before the receipt
\* is generated, and a failure of the receipt changes nothing: the request
\* succeeds and the same loan row is stored as when the receipt is written.
C18_ReceiptFailureIgnored ==
    \A id_number \in IdNumbers, amount \in LoanAmounts, interest_rate \in CreateRates,
       start_date \in StartDates, guarantor \in BOOLEAN :
        LET o == create_loan_outcome(id_number, amount, interest_rate, start_date, guarantor)
            failed == ReceiptAttempt(o, TRUE)
            written == ReceiptAttempt(o, FALSE)
        IN o.code = 200 =>
            /\ failed.code = 200 /\ written.code = 200
            /\ failed.loans = written.loans /\ Len(failed.loans) = Len(loans) + 1
            /\ failed.loans[Len(failed.loans)] = NewLoan(o)
            /\ failed.guarantors = written.guarantors
            /\ failed.guarantors = IF guarantor THEN guarantors + 1 ELSE guarantors

\* a loan with a guarantor is accepted while the receipt fails
C18_Witness ==
    \E id_number \in IdNumbers, amount \in LoanAmounts, interest_rate \in CreateRates,
       start_date \in StartDates :
        LET o == ReceiptAttempt(
                    create_loan_outcome(id_number, amount, interest_rate, start_date, TRUE),
                    TRUE)
        IN o.code = 200 /\ Len(o.loans) = Len(loans) + 1 /\ o.guarantors = guarantors + 1


\* C19: every successful record_payment or pay_arrears, with any amount the
\* handler accepts, leaves the loan's remaining_amount at most what it was
\* before the request and at least 0.
C19_PaymentsOnlyDecrease ==
    /\ \A id_number \in IdNumbers, amount \in PaymentAmounts :
          LET o == record_payment_outcome(id_number, amount) IN
          o.code = 200 =>
              /\ o.loans[o.loan_id].remaining_amount <= loans[o.loan_id].remaining_amount
              /\ o.loans[o.loan_id].remaining_amount >= 0
    /\ \A arrears_id \in LoanIds, amount \in ArrearsPaymentAmounts :
          LET o == pay_arrears_outcome(arrears_id, amount) IN
          o.code = 200 =>
              LET loan_id == arrears[arrears_id].loan_id IN
              /\ o.loans[loan_id].remaining_amount <= loans[loan_id].remaining_amount
              /\ o.loans[loan_id].remaining_amount >= 0


\* C20: with loans of positive principal and positive payment amounts only,
\* every reachable state has 0 <= remaining_amount <= total_amount for every
\* loan, across record_payment, pay_arrears, clear_arrears, update_loan,
\* update_installment_amount and delete_installment.
C20_RemainingWithinTotal ==
    \A i \in DOMAIN loans :
        /\ loans[i].amount > 0
        /\ \A r \in installments : r.amount > 0
        => /\ 0 <= loans[i].remaining_amount
           /\ loans[i].remaining_amount <= loans[i].total_amount


\* reference dates handed to sync_overdue_state: today and the days after it
RefDates == today..(MaxDay + 1)

C21_Overdue(s, loan_id) ==
    /\ s.loans[loan_id].status = "OVERDUE"
    /\ Cardinality(ArrearsOfLoan(s.arrears, loan_id)) = 1
    /\ \A a \in ArrearsOfLoan(s.arrears, loan_id) :
          /\ ~s.arrears[a].is_cleared
          /\ s.arrears[a].remaining_amount = s.loans[loan_id].remaining_amount

C21_PaidOff(s, loan_id) ==
    \A a \in ArrearsOfLoan(s.arrears, loan_id) :
        /\ s.arrears[a].is_cleared
        /\ s.arrears[a].remaining_amount = 0
        /\ s.arrears[a].cleared_date # NULL

\* C21: after sync_overdue_state(loan, ref_date), a loan with
\* due_date < ref_date and remaining_amount > 0 is OVERDUE and has exactly one
\* arrears record, uncleared, whose remaining_amount equals the loan's; a loan
\* with remaining_amount <= 0 has every arrears record cleared, at 0, with
\* cleared_date set; the status is never ARREARS.
C21_SyncPostcondition ==
    \A loan_id \in DOMAIN loans, ref_date \in RefDates :
        LET s == sync_overdue_state(loans, arrears, loan_id, ref_date)
            loan == s.loans[loan_id]
        IN /\ (loan.due_date < ref_date /\ loan.remaining_amount > 0)
                => C21_Overdue(s, loan_id)
           /\ loan.remaining_amount <= 0 => C21_PaidOff(s, loan_id)
           /\ loan.status # "ARREARS"


\* C22: after sync_overdue_state(loan, ref_date) a loan whose status is
\* OVERDUE has due_date < ref_date and remaining_amount > 0, also when
\* update_loan moved its due_date to a later day after it became OVERDUE.
C22_OverdueOnlyWhileOverdue ==
    \A loan_id \in DOMAIN loans, ref_date \in RefDates :
        LET loan == sync_overdue_state(loans, arrears, loan_id, ref_date).loans[loan_id] IN
        loan.status = "OVERDUE" =>
            loan.due_date < ref_date /\ loan.remaining_amount > 0

\* C23: after every committed handler each loan's status is ACTIVE, OVERDUE or
\* COMPLETED; a partial arrears payment leaves the loan OVERDUE and the loan
\* is still returned by the listing of ACTIVE and OVERDUE loans.
C23_NoLegacyArrearsStatus ==
    /\ \A i \in DOMAIN loans : loans[i].status \in {"ACTIVE", "OVERDUE", "COMPLETED"}
    /\ \A arrears_id \in LoanIds, amount \in ArrearsRequestAmounts :
          LET o == pay_arrears_outcome(arrears_id, amount) IN
          (o.code = 200 /\ 0 < amount /\ amount < arrears[arrears_id].remaining_amount)
            => o.loans[arrears[arrears_id].loan_id].status = "OVERDUE"


\* C24: after every successful update_loan on a loan that is not COMPLETED,
\* for every supplied amount and every supplied rate, 0 included, the stored
\* total_amount is amount x (1 + interest_rate/100), and total_amount less
\* remaining_amount is what it was whenever that does not exceed the new
\* total_amount.
C24_UpdateLoanTotals ==
    \A loan_id \in DOMAIN loans, amount \in TotalsAmounts, interest_rate \in TotalsRates :
        LET o == update_loan_outcome(loan_id, amount, interest_rate, NULL, NULL)
            before == loans[loan_id]
            after == o.loans[loan_id]
            paid == before.total_amount - before.remaining_amount
        IN (o.code = 200 /\ before.status # "COMPLETED") =>
            /\ after.total_amount * 100 = after.amount * (100 + after.interest_rate)
            /\ paid <= after.total_amount =>
                  after.total_amount - after.remaining_amount = paid


\* C25: in every state reached by operations executed one after another, a
\* loan is COMPLETED if and only if its remaining_amount is 0; no operation
\* leaves a loan ACTIVE or OVERDUE with remaining_amount 0.
C25_CompletedIffNothingOwed ==
    \A i \in DOMAIN loans :
        loans[i].status = "COMPLETED" <=> loans[i].remaining_amount = 0

\* C26: in every state reached by operations executed one after another, a
\* loan's completed_at is set if and only if its status is COMPLETED, and a
\* COMPLETED loan has no uncleared arrears record.
C26_CompletedAtIffCompleted ==
    \A i \in DOMAIN loans :
        /\ loans[i].completed_at # NULL <=> loans[i].status = "COMPLETED"
        /\ loans[i].status = "COMPLETED" =>
              \A a \in ArrearsOfLoan(arrears, i) : arrears[a].is_cleared


\* a loan completed through its arrears record, the record cleared, beside
\* the timestamp of the completion
C26_Witness ==
    \E i \in DOMAIN loans :
        /\ loans[i].status = "COMPLETED" /\ loans[i].completed_at # NULL
        /\ TotalPaid(installments, i) < loans[i].total_amount
        /\ \E a \in ArrearsOfLoan(arrears, i) : arrears[a].is_cleared


\* C27: a successful pay_arrears of amount x on an uncleared arrears record
\* leaves the linked loan with remaining_amount = max(0, remaining_amount
\* before - x), in every reachable state in which the request is accepted,
\* also after update_loan changed the loan since the record was last synced.
C27_PayArrearsLowersLoanByAmount ==
    \A arrears_id \in LoanIds, amount \in ArrearsRequestAmounts :
        LET o == pay_arrears_outcome(arrears_id, amount) IN
        o.code = 200 =>
            LET loan_id == arrears[arrears_id].loan_id IN
            o.loans[loan_id].remaining_amount
                = Max(0, loans[loan_id].remaining_amount - amount)


C28_SameArrears(ar1, ar2, loan_id) ==
    /\ ArrearsOfLoan(ar1, loan_id) = ArrearsOfLoan(ar2, loan_id)
    /\ \A a \in ArrearsOfLoan(ar1, loan_id) :
          /\ ar1[a].remaining_amount = ar2[a].remaining_amount
          /\ ar1[a].is_cleared = ar2[a].is_cleared

\* C28: for a fixed reference date, a second sync_overdue_state on the same
\* loan right after a first one returns False and leaves the loan's status
\* and remaining_amount and its arrears record's remaining_amount and
\* is_cleared as the first call left them.
C28_SyncIdempotent ==
    \A loan_id \in DOMAIN loans, ref_date \in RefDates :
        LET first == sync_overdue_state(loans, arrears, loan_id, ref_date)
            second == sync_overdue_state(first.loans, first.arrears, loan_id, ref_date)
        IN /\ ~second.changed
           /\ second.loans[loan_id].status = first.loans[loan_id].status
           /\ second.loans[loan_id].remaining_amount = first.loans[loan_id].remaining_amount
           /\ C28_SameArrears(first.arrears, second.arrears, loan_id)

\* a first call that rewrites the balance of an existing arrears record, and
\* a second call that changes nothing
C28_Witness ==
    \E loan_id \in DOMAIN loans, ref_date \in RefDates :
        LET first == sync_overdue_state(loans, arrears, loan_id, ref_date)
            second == sync_overdue_state(first.loans, first.arrears, loan_id, ref_date)
        IN /\ first.changed /\ ~second.changed
           /\ \E a \in ArrearsOfLoan(arrears, loan_id) :
                 first.arrears[a].remaining_amount # arrears[a].remaining_amount


\* C30: compute_weekly_progress over the 4-week schedule, amounts in cents and
\* the weekly due the total over 4 rounded to the cent: weeks_elapsed is 0
\* before start_date and min(4, floor(days_elapsed / 7) + 1) from then on, so
\* it never decreases with the reference date and never exceeds 4;
\* arrears_amount is max(0, weekly_due x weeks_elapsed - (total_amount -
\* remaining_amount)), never negative, and 0 at every reference date for a
\* loan whose remaining_amount is 0.
C30_WeeklyProgress ==
    \A i \in DOMAIN loans, tie_up \in BOOLEAN, reference_date \in today..MaxWeeklyDay :
        LET loan == loans[i]
            p == compute_weekly_progress(loan, reference_date, tie_up)
            next == compute_weekly_progress(loan, reference_date + 1, tie_up)
            days_elapsed == reference_date - loan.start_date
        IN /\ reference_date < loan.start_date => p.weeks_elapsed = 0
           /\ reference_date >= loan.start_date =>
                 p.weeks_elapsed = IF (days_elapsed \div 7) + 1 < 4
                                   THEN (days_elapsed \div 7) + 1 ELSE 4
           /\ p.weeks_elapsed <= next.weeks_elapsed
           /\ p.weeks_elapsed <= 4
           /\ p.arrears_amount =
                 Max(0, p.weekly_due_amount * p.weeks_elapsed
                            - (loan.total_amount - loan.remaining_amount))
           /\ p.arrears_amount >= 0
           /\ loan.remaining_amount = 0 => p.arrears_amount = 0


\* C29: no loan is stuck unpayable: from every reachable state each loan that
\* is not COMPLETED is brought to COMPLETED by accepted payments of positive
\* amounts through record_payment and pay_arrears, with sync_overdue_state
\* and days passing, and without update_loan, clear_arrears or edits of
\* installments.
C29_EveryLoanIsPaidOff ==
    \A i \in LoanIds :
        (payoff /\ i \in DOMAIN loans /\ loans[i].status # "COMPLETED")
            ~> (i \in DOMAIN loans /\ loans[i].status = "COMPLETED")

=============================================================================
